---- MODULE Spec2Model ----
(***************************************************************************)
(* The flat-file memory store of conduit (src-tauri/src/memory/mod.rs).    *)
(*                                                                         *)
(* Text is a sequence of one-character strings, so the regular             *)
(* expressions of the decoder are modelled by what they match.  The date,  *)
(* time-of-day, fraction and offset fields of a timestamp are single       *)
(* lexemes (one sequence element each): no pattern of the program matches  *)
(* inside them.                                                            *)
(***************************************************************************)
EXTENDS Integers, Sequences, FiniteSets, TLC

VARIABLES
    dir,      \* the base directory: "ok", "noread" (it cannot be listed), "absent",
              \* or "blocked" (absent, and it cannot be created)
    entries,  \* directory content: entry name -> entry, or NoEntry
    now,      \* the clock read by Utc::now()
    op,       \* the last store operation called, with its argument
    res,      \* what that operation returned
    shadow,   \* history: id -> never saved, the record last saved, or deleted since
    tampered, \* history: the directory was changed from outside the store
    cpc,      \* codec run: position
    cm,       \* codec run: the record given to to_markdown
    ctext,    \* codec run: the text produced / given to from_markdown
    cres,     \* codec run: the result of from_markdown
    link,     \* concurrent callers: the inode <id>.md names, 0 when there is no file
    inodes,   \* concurrent callers: the content of each inode
    procs     \* concurrent callers: each caller's call, position, descriptor, result

vars == <<dir, entries, now, op, res, shadow, tampered, cpc, cm, ctext, cres,
          link, inodes, procs>>
storeVars == <<dir, entries, now, op, res, shadow, tampered>>
codecVars == <<cpc, cm, ctext, cres>>
concVars == <<link, inodes, procs>>

(***************************************************************************)
(* Text                                                                    *)
(***************************************************************************)
NL == "\n"

\* F applied to the value of v
Let(v, F(_)) == CHOOSE r \in {F(x) : x \in {v}} : TRUE

\* p occurs in t at position i
MatchAt(t, p, i) ==
    /\ i >= 1
    /\ i + Len(p) - 1 <= Len(t)
    /\ \A k \in 1..Len(p) : t[i + k - 1] = p[k]

MinOf(S) == CHOOSE j \in S : \A k \in S : j <= k
MaxOf(S) == CHOOSE j \in S : \A k \in S : j >= k

\* first / last position >= from where p occurs in t, 0 when there is none
FindFirst(t, p, from) ==
    LET S == {j \in from..(Len(t) - Len(p) + 1) : MatchAt(t, p, j)}
    IN  IF S = {} THEN 0 ELSE MinOf(S)

FindLast(t, p, from) ==
    LET S == {j \in from..(Len(t) - Len(p) + 1) : MatchAt(t, p, j)}
    IN  IF S = {} THEN 0 ELSE MaxOf(S)

\* str::contains
Contains(t, p) == \E j \in 1..(Len(t) - Len(p) + 1) : MatchAt(t, p, j)

\* the position just after the line that position i is on (the next "\n", or the end)
LineEnd(t, i) ==
    LET S == {j \in i..Len(t) : t[j] = NL}
    IN  IF S = {} THEN Len(t) + 1 ELSE MinOf(S)

\* char::to_lowercase on the letters of the alphabet used here
LowerChar(c) ==
    CASE c = "S" -> "s"
      [] c = "W" -> "w"
      [] c = "O" -> "o"
      [] c = "R" -> "r"
      [] c = "K" -> "k"
      [] c = "L" -> "l"
      [] c = "T" -> "t"
      [] OTHER   -> c

to_lowercase(t) == [k \in 1..Len(t) |-> LowerChar(t[k])]

IsWhite(c) == c \in {" ", NL, "\t"}

\* str::trim
trim(t) ==
    LET S == {k \in 1..Len(t) : ~IsWhite(t[k])}
    IN  IF S = {} THEN <<>> ELSE SubSeq(t, MinOf(S), MaxOf(S))

\* the k-th smallest member of a set of numbers
Nth(S, k) == CHOOSE c \in S : Cardinality({d \in S : d < c}) = k - 1

\* str::split(',') : the pieces between the commas, always at least one piece
SplitAt(t, cuts) ==
    [k \in 1..(Cardinality(cuts) - 1) |-> SubSeq(t, Nth(cuts, k) + 1, Nth(cuts, k + 1) - 1)]

split(t) == SplitAt(t, {0, Len(t) + 1} \cup {k \in 1..Len(t) : t[k] = ","})

\* [String]::join(", ")
RECURSIVE join(_)
join(ts) ==
    IF Len(ts) = 0 THEN <<>>
    ELSE IF Len(ts) = 1 THEN ts[1]
    ELSE ts[1] \o <<",", " ">> \o join(Tail(ts))

(***************************************************************************)
(* Timestamps.  An instant is [s |-> seconds since 2023-01-01T00:00:00Z,   *)
(* ns |-> nanoseconds].  The lexemes of the texts used here:               *)
(***************************************************************************)
DateTable == { <<"2023-01-01", 0>>, <<"2023-01-02", 86400>> }
TodTable  == { <<"10:00:00", 36000>>, <<"10:00:01", 36001>>, <<"10:00:02", 36002>>,
               <<"10:00:03", 36003>>, <<"10:00:04", 36004>>, <<"11:00:00", 39600>> }
FracTable == { <<".5", 500000000>> }
ColonOffsetTable == { <<"+00:00", 0>>, <<"+01:00", 3600>> }
PlainOffsetTable == { <<"+0000", 0>>, <<"+0100", 3600>> }
AnyOffsetTable   == ColonOffsetTable \cup PlainOffsetTable

Lex(table) == {e[1] : e \in table}
ValueOf(table, lex) == (CHOOSE e \in table : e[1] = lex)[2]
LexOf(table, v) == (CHOOSE e \in table : e[2] = v)[1]

Instant(s, ns) == [s |-> s, ns |-> ns]

\* DateTime<Utc>::to_rfc3339: date "T" time [fraction] "+00:00"
to_rfc3339(i) ==
    Let(CHOOSE e \in DateTable : e[2] <= i.s /\ i.s < e[2] + 86400, LAMBDA d :
        <<d[1], "T", LexOf(TodTable, i.s - d[2])>>
        \o (IF i.ns = 0 THEN <<>> ELSE <<LexOf(FracTable, i.ns)>>)
        \o <<"+00:00">>)

NoInstant == [s |-> -1, ns |-> -1]

\* date, separator, time, optional fraction at the front of t: the instant read as
\* UTC and the position after it; NoInstant when t does not start that way
DateTimePrefix(t, seps, fracAllowed) ==
    IF /\ Len(t) >= 3
       /\ t[1] \in Lex(DateTable)
       /\ t[2] \in seps
       /\ t[3] \in Lex(TodTable)
    THEN LET s == ValueOf(DateTable, t[1]) + ValueOf(TodTable, t[3])
         IN  IF fracAllowed /\ Len(t) >= 4 /\ t[4] \in Lex(FracTable)
             THEN [i |-> Instant(s, ValueOf(FracTable, t[4])), next |-> 5]
             ELSE [i |-> Instant(s, 0), next |-> 4]
    ELSE [i |-> NoInstant, next |-> 0]

\* DateTime::parse_from_rfc3339(t), then with_timezone(&Utc)
parse_from_rfc3339(t) ==
    Let(DateTimePrefix(t, {"T", "t"}, TRUE), LAMBDA p :
        IF p.next = 0 \/ Len(t) # p.next THEN NoInstant
        ELSE IF t[p.next] \in {"Z", "z"} THEN p.i
        ELSE IF t[p.next] \in Lex(ColonOffsetTable)
             THEN Instant(p.i.s - ValueOf(ColonOffsetTable, t[p.next]), p.i.ns)
        ELSE NoInstant)

\* DateTime::parse_from_str(t, "%Y-%m-%d %H:%M:%S%.f %z") (fraction TRUE) and
\* DateTime::parse_from_str(t, "%Y-%m-%d %H:%M:%S %z") (fraction FALSE)
parse_with_offset(t, fraction) ==
    Let(DateTimePrefix(t, {" "}, fraction), LAMBDA p :
        IF p.next = 0 \/ Len(t) # p.next + 1 THEN NoInstant
        ELSE IF t[p.next] = " " /\ t[p.next + 1] \in Lex(AnyOffsetTable)
             THEN Instant(p.i.s - ValueOf(AnyOffsetTable, t[p.next + 1]), p.i.ns)
        ELSE NoInstant)

\* NaiveDateTime::parse_from_str(t, "%Y-%m-%d %H:%M:%S"), taken as UTC
parse_naive(t) ==
    Let(DateTimePrefix(t, {" "}, FALSE), LAMBDA p :
        IF p.next = 0 \/ Len(t) # p.next - 1 THEN NoInstant ELSE p.i)

\* the decoder as it would be with the RFC 3339 format alone
parse_timestamp_rfc3339_only(t) == parse_from_rfc3339(t)

\* the four formats, in the order the decoder tries them
parse_timestamp(t) ==
    Let(parse_from_rfc3339(t), LAMBDA a :
        IF a # NoInstant THEN a
        ELSE Let(parse_with_offset(t, TRUE), LAMBDA b :
            IF b # NoInstant THEN b
            ELSE Let(parse_with_offset(t, FALSE), LAMBDA c :
                IF c # NoInstant THEN c ELSE parse_naive(t))))

(***************************************************************************)
(* Encoding                                                                *)
(***************************************************************************)
Memory(id, title, content, tags, created_at, updated_at) ==
    [id |-> id, title |-> title, content |-> content, tags |-> tags,
     created_at |-> created_at, updated_at |-> updated_at]

HeaderOpen  == <<"-", "-", "-", NL>>
HeaderClose == <<NL, "-", "-", "-", NL, NL>>
KeyId       == <<"i", "d", ":", " ">>
KeyTitle    == <<"t", "i", "t", "l", "e", ":", " ">>
KeyTags     == <<"t", "a", "g", "s", ":", " ", "[">>
KeyCreated  == <<"c", "r", "e", "a", "t", "e", "d", "_", "a", "t", ":", " ">>
KeyUpdated  == <<"u", "p", "d", "a", "t", "e", "d", "_", "a", "t", ":", " ">>

to_markdown(m) ==
    HeaderOpen
    \o KeyId \o m.id \o <<NL>>
    \o KeyTitle \o m.title \o <<NL>>
    \o KeyTags \o join(m.tags) \o <<"]", NL>>
    \o KeyCreated \o to_rfc3339(m.created_at) \o <<NL>>
    \o KeyUpdated \o to_rfc3339(m.updated_at) \o <<NL>>
    \o <<"-", "-", "-", NL, NL>>
    \o m.content

Ok(v) == [tag |-> "Ok", val |-> v]
InvalidFormat(msg, detail) == [tag |-> "InvalidFormat", msg |-> msg, detail |-> detail]
NotFound(id) == [tag |-> "NotFound", id |-> id]
Io(what) == [tag |-> "Io", what |-> what]
\* the thread panics: no value is returned
Panic == [tag |-> "Panic"]

NoCapture == <<"<none>">>

\* (?s)---\n(.*?)\n---\n\n(.*) when lazy, (?s)---\n(.*)\n---\n\n(.*) when not:
\* the leftmost "---\n" that a terminator follows, then the first (lazy) or the
\* last (greedy) terminator after it
HeaderCaptures(t, lazy) ==
    Let(FindFirst(t, HeaderOpen, 1), LAMBDA open :
        Let(IF open = 0 THEN 0
            ELSE IF lazy THEN FindFirst(t, HeaderClose, open + 4)
            ELSE FindLast(t, HeaderClose, open + 4), LAMBDA close :
            IF close = 0 THEN [matched |-> FALSE, frontmatter |-> <<>>, content |-> <<>>]
            ELSE [matched |-> TRUE,
                  frontmatter |-> SubSeq(t, open + 4, close - 1),
                  content |-> SubSeq(t, close + 6, Len(t))]))

\* key(.*) : the rest of the line after the leftmost occurrence of key
LineCapture(f, key) ==
    Let(FindFirst(f, key, 1), LAMBDA k :
        IF k = 0 THEN NoCapture
        ELSE SubSeq(f, k + Len(key), LineEnd(f, k + Len(key)) - 1))

\* tags: \[(.*)\] when greedy, tags: \[(.*?)\] when lazy: the leftmost "tags: ["
\* with a "]" later on its line, up to the last (greedy) or first (lazy) such "]"
LineBrackets(f, k) == {j \in k..(LineEnd(f, k) - 1) : f[j] = "]"}

TagsCapture(f, lazy) ==
    Let({k \in 1..Len(f) : MatchAt(f, KeyTags, k) /\ LineBrackets(f, k + 7) # {}},
        LAMBDA starts :
            IF starts = {} THEN NoCapture
            ELSE Let(MinOf(starts), LAMBDA k :
                     Let(LineBrackets(f, k + 7), LAMBDA br :
                         SubSeq(f, k + 7, (IF lazy THEN MinOf(br) ELSE MaxOf(br)) - 1))))

\* tags_str.split(',').map(|s| s.trim().to_string()).collect()
parse_tags(s) ==
    Let(split(s), LAMBDA ps : [k \in 1..Len(ps) |-> Let(ps[k], LAMBDA piece : trim(piece))])

\* the timestamp fields of the header, once id, title and tags are there
DecodeTimes(f, content, id, title, tagsStr) ==
    Let(LineCapture(f, KeyCreated), LAMBDA created :
        IF created = NoCapture THEN InvalidFormat("Missing created_at", <<>>)
        ELSE Let(parse_timestamp(created), LAMBDA created_at :
            IF created_at = NoInstant
            THEN InvalidFormat("Invalid created_at format", created)
            ELSE Let(LineCapture(f, KeyUpdated), LAMBDA updated :
                IF updated = NoCapture THEN InvalidFormat("Missing updated_at", <<>>)
                ELSE Let(parse_timestamp(updated), LAMBDA updated_at :
                    IF updated_at = NoInstant
                    THEN InvalidFormat("Invalid updated_at format", updated)
                    ELSE Ok(Memory(id, title, content, parse_tags(tagsStr),
                                   created_at, updated_at))))))

\* the fields of the header f, in the order the decoder reads them
DecodeHeader(f, content) ==
    Let(LineCapture(f, KeyId), LAMBDA id :
        IF id = NoCapture THEN InvalidFormat("Missing id", <<>>)
        ELSE Let(LineCapture(f, KeyTitle), LAMBDA title :
            IF title = NoCapture THEN InvalidFormat("Missing title", <<>>)
            ELSE Let(TagsCapture(f, FALSE), LAMBDA tagsStr :
                IF tagsStr = NoCapture THEN InvalidFormat("Missing tags", <<>>)
                ELSE DecodeTimes(f, content, id, title, tagsStr))))

\* the decoder as it would be with an unwrap on the header match
from_markdown_unwrapping_header(t) ==
    Let(HeaderCaptures(t, TRUE), LAMBDA c :
        IF ~c.matched THEN Panic ELSE DecodeHeader(c.frontmatter, c.content))

\* Memory::from_markdown
from_markdown(t) ==
    Let(HeaderCaptures(t, TRUE), LAMBDA c :
        IF ~c.matched THEN InvalidFormat("Invalid markdown format", <<>>)
        ELSE DecodeHeader(c.frontmatter, c.content))

(***************************************************************************)
(* The recovery parse                                                      *)
(***************************************************************************)
None == [some |-> FALSE]
Some(v) == [some |-> TRUE, val |-> v]

\* try_fix_memory_file(content), with t the value Utc::now() returns
FixHeader(f, content, t) ==
    Let(LineCapture(f, KeyId), LAMBDA id :
        Let(LineCapture(f, KeyTitle), LAMBDA title :
            Let(TagsCapture(f, TRUE), LAMBDA tagsStr :
                IF id = NoCapture \/ title = NoCapture \/ tagsStr = NoCapture THEN None
                ELSE Some(Memory(id, title, content, parse_tags(tagsStr), t, t)))))

try_fix_memory_file(content, t) ==
    Let(HeaderCaptures(content, FALSE), LAMBDA c :
        IF ~c.matched THEN None ELSE FixHeader(c.frontmatter, c.content, t))

(***************************************************************************)
(* The directory.  An entry is absent, a file (its text; whether it can be *)
(* opened for reading) or a sub-directory.                                 *)
(***************************************************************************)
NoEntry == [kind |-> "none"]
File(text, readable) == [kind |-> "file", text |-> text, readable |-> readable]
Subdir == [kind |-> "dir"]

DotMd == <<".", "m", "d">>

\* get_memory_path: base_path.join(format!("{}.md", id)), as the entry's name
get_memory_path(id) == id \o DotMd

\* Path::extension: what follows the last "." of the name, when the name has one
\* that is not its first character
extension(name) ==
    LET dots == {k \in 2..Len(name) : name[k] = "."}
    IN  IF dots = {} THEN <<>> ELSE SubSeq(name, MaxOf(dots) + 1, Len(name))

\* path.is_file() && path.extension().map_or(false, |ext| ext == "md")
IsRecordFile(es, name) == es[name].kind = "file" /\ extension(name) = <<"m", "d">>

\* the clock as an instant: 2023-01-02T10:00:00Z plus k seconds
ClockInstant(k) == Instant(86400 + 36000 + k, 0)

\* what an operation leaves behind: its return value, the directory, the clock
Outcome(r, d, es, t) == [res |-> r, dir |-> d, entries |-> es, now |-> t]

\* base_path.exists() is false
Absent(d) == d \in {"absent", "blocked"}

\* MemoryStore::save
save(d, es, t, m) ==
    LET path == get_memory_path(m.id)
    IN  IF Absent(d) THEN Outcome(Io("create"), d, es, t)
        ELSE IF es[path].kind = "dir" THEN Outcome(Io("create"), d, es, t)
        ELSE Outcome(Ok(<<>>), d,
                     [es EXCEPT ![path] =
                         File(to_markdown(m),
                              IF es[path].kind = "file" THEN es[path].readable ELSE TRUE)],
                     t)

\* MemoryStore::get
get(d, es, t, id) ==
    LET path == get_memory_path(id)
    IN  IF Absent(d) \/ es[path].kind = "none" THEN Outcome(NotFound(id), d, es, t)
        ELSE IF es[path].kind = "dir" THEN Outcome(Io("read"), d, es, t)
        ELSE IF ~es[path].readable THEN Outcome(Io("open"), d, es, t)
        ELSE Outcome(from_markdown(es[path].text), d, es, t)

\* delete as it would be without the exists() test: remove_file reports the missing file
delete_without_check(d, es, t, id) ==
    IF Absent(d) \/ es[get_memory_path(id)].kind # "file" THEN Outcome(Io("remove"), d, es, t)
    ELSE Outcome(Ok(<<>>), d, [es EXCEPT ![get_memory_path(id)] = NoEntry], t)

\* delete as it would be if it returned before remove_file
delete_keeping_file(d, es, t, id) ==
    IF Absent(d) \/ es[get_memory_path(id)].kind = "none" THEN Outcome(NotFound(id), d, es, t)
    ELSE Outcome(Ok(<<>>), d, es, t)

\* MemoryStore::delete
delete(d, es, t, id) ==
    LET path == get_memory_path(id)
    IN  IF Absent(d) \/ es[path].kind = "none" THEN Outcome(NotFound(id), d, es, t)
        ELSE IF es[path].kind = "dir" THEN Outcome(Io("remove"), d, es, t)
        ELSE Outcome(Ok(<<>>), d, [es EXCEPT ![path] = NoEntry], t)

\* list's loop body as it would be without the recovery parse
ListEntry_without_recovery(es, name, t) ==
    IF ~IsRecordFile(es, name) THEN <<>>
    ELSE IF ~es[name].readable THEN <<>>
    ELSE Let(from_markdown(es[name].text), LAMBDA r :
             IF r.tag = "Ok" THEN <<r.val>> ELSE <<>>)

\* the body of list's loop for one directory entry: what it pushes
ListEntry(es, name, t) ==
    IF ~IsRecordFile(es, name) THEN <<>>
    ELSE IF ~es[name].readable THEN <<>>
    ELSE Let(from_markdown(es[name].text), LAMBDA r :
             IF r.tag = "Ok" THEN <<r.val>>
             ELSE Let(try_fix_memory_file(es[name].text, ClockInstant(t)), LAMBDA fixed :
                      IF fixed.some THEN <<fixed.val>> ELSE <<>>))

RECURSIVE ListLoop(_, _, _)
ListLoop(es, order, t) ==
    IF order = <<>> THEN <<>>
    ELSE ListEntry(es, Head(order), t) \o ListLoop(es, Tail(order), t)

\* list as it would be if it wrote every record it recovers back to its file
list_writing_back(d, es, t, order) ==
    IF d = "absent" THEN Outcome(Ok(<<>>), "ok", es, t)
    ELSE IF d = "blocked" THEN Outcome(Io("create_dir_all"), d, es, t)
    ELSE IF d = "noread" THEN Outcome(Io("read_dir"), d, es, t)
    ELSE Outcome(Ok(ListLoop(es, order, t)), d,
                 [n \in DOMAIN es |->
                     IF /\ IsRecordFile(es, n)
                        /\ es[n].readable
                        /\ from_markdown(es[n].text).tag # "Ok"
                        /\ ListEntry(es, n, t) # <<>>
                     THEN File(to_markdown(ListEntry(es, n, t)[1]), TRUE)
                     ELSE es[n]],
                 t)

\* MemoryStore::list, the directory read in the given order, the clock at t
list(d, es, t, order) ==
    IF d = "absent" THEN Outcome(Ok(<<>>), "ok", es, t)
    ELSE IF d = "blocked" THEN Outcome(Io("create_dir_all"), d, es, t)
    ELSE IF d = "noread" THEN Outcome(Io("read_dir"), d, es, t)
    ELSE Outcome(Ok(ListLoop(es, order, t)), d, es, t)

\* the lower-cased text contains q
ContainsLower(text, q) == \E lowered \in {to_lowercase(text)} : Contains(lowered, q)

\* the filter of search as it would be with the query compared as typed
SearchMatches_query_as_typed(memory, query) ==
    \/ ContainsLower(memory.title, query)
    \/ ContainsLower(memory.content, query)
    \/ \E k \in 1..Len(memory.tags) : ContainsLower(memory.tags[k], query)

\* the filter of search as it would be without the test of the tags
SearchMatches_without_tags(memory, query) ==
    \E q \in {to_lowercase(query)} :
        \/ ContainsLower(memory.title, q)
        \/ ContainsLower(memory.content, q)

\* the filter of search
SearchMatches(memory, query) ==
    \E q \in {to_lowercase(query)} :
        \/ ContainsLower(memory.title, q)
        \/ ContainsLower(memory.content, q)
        \/ \E k \in 1..Len(memory.tags) : ContainsLower(memory.tags[k], q)

\* the filter of search_by_tag as it would be with contains in place of ==
TagMatches_by_substring(memory, tag) ==
    \E k \in 1..Len(memory.tags) : ContainsLower(memory.tags[k], to_lowercase(tag))

\* the filter of search_by_tag
TagMatches(memory, tag) ==
    \E k \in 1..Len(memory.tags) : to_lowercase(memory.tags[k]) = to_lowercase(tag)

\* MemoryStore::search
search(d, es, t, order, query) ==
    Let(list(d, es, t, order), LAMBDA l :
        IF l.res.tag # "Ok" THEN l
        ELSE [l EXCEPT !.res = Ok(SelectSeq(l.res.val,
                                            LAMBDA memory : SearchMatches(memory, query)))])

\* MemoryStore::search_by_tag
search_by_tag(d, es, t, order, tag) ==
    Let(list(d, es, t, order), LAMBDA l :
        IF l.res.tag # "Ok" THEN l
        ELSE [l EXCEPT !.res = Ok(SelectSeq(l.res.val,
                                            LAMBDA memory : TagMatches(memory, tag)))])

\* the body of the open-time pass's loop for one directory entry: the directory
\* after it, and whether the pass goes on (a failed open ends it)
FixEntry(es, name, t) ==
    IF ~IsRecordFile(es, name) THEN [entries |-> es, goon |-> TRUE]
    ELSE IF ~es[name].readable THEN [entries |-> es, goon |-> FALSE]
    ELSE Let(from_markdown(es[name].text), LAMBDA r :
             IF /\ r.tag = "InvalidFormat"
                /\ r.msg \in {"Invalid created_at format", "Invalid updated_at format"}
             THEN Let(try_fix_memory_file(es[name].text, ClockInstant(t)), LAMBDA fixed :
                      IF fixed.some
                      THEN [entries |-> [es EXCEPT ![name] = File(to_markdown(fixed.val), TRUE)],
                            goon |-> TRUE]
                      ELSE [entries |-> es, goon |-> TRUE])
             ELSE [entries |-> es, goon |-> TRUE])

\* MemoryStore::fix_invalid_memory_files, the directory read in the given order
RECURSIVE fix_invalid_memory_files(_, _, _, _)
fix_invalid_memory_files(d, es, t, order) ==
    IF d # "ok" \/ order = <<>> THEN es
    ELSE Let(FixEntry(es, Head(order), t), LAMBDA one :
             IF one.goon THEN fix_invalid_memory_files(d, one.entries, t, Tail(order))
             ELSE one.entries)

\* MemoryStore::new
new(d, es, t, order) ==
    IF d = "absent" THEN Outcome(Ok(<<>>), "ok", fix_invalid_memory_files("ok", es, t, order), t)
    ELSE IF d = "blocked" THEN Outcome(Panic, d, es, t)
    ELSE Outcome(Ok(<<>>), d, fix_invalid_memory_files(d, es, t, order), t)

(***************************************************************************)
(* Bounded inputs                                                          *)
(***************************************************************************)
Ids      == { <<"a">>, <<"b">> }
T0       == Instant(36000, 0)               \* 2023-01-01T10:00:00Z
T1       == Instant(86400 + 36001, 500000000) \* 2023-01-02T10:00:01.5Z
TagWork     == <<"w", "o", "r", "k">>
TagWorkshop == <<"w", "o", "r", "k", "s", "h", "o", "p">>
TagHome     == <<"h", "o", "m", "e">>
TitleShop   == <<"S", "h", "o", "p", "p", "i", "n", "g", " ", "L", "i", "s", "t">>
TitleTodo   == <<"t", "o", "d", "o">>
BodyHi      == <<"h", "i">>

CodecTitles   == { TitleShop, <<"T">> }
CodecContents == { <<>>, BodyHi, <<"x", NL, "y">> }
CodecTags     == { <<>>, <<TagWork>>, <<TagWork, TagHome>>, <<<<" ", "w", " ">>>> }
CodecMemories ==
    { Memory(id, ti, co, tg, ts[1], ts[2]) :
        id \in Ids, ti \in CodecTitles, co \in CodecContents, tg \in CodecTags,
        ts \in { <<T0, T0>>, <<T0, T1>> } }

NoMemory == Memory(<<>>, <<>>, <<>>, <<>>, NoInstant, NoInstant)
NoResult == [tag |-> "None"]

MaxNow == 1

TagPersonal == <<"p", "e", "r", "s", "o", "n", "a", "l">>
IdA == <<"a">>
IdB == <<"b">>
NameA   == get_memory_path(IdA)
NameB   == get_memory_path(IdB)
NameTxt == <<"a", ".", "t", "x", "t">>
NameSub == <<"s", ".", "m", "d">>
Names   == { NameA, NameB, NameTxt, NameSub }

\* the orders read_dir yields the entries in
DirOrders == { <<NameA, NameB, NameTxt, NameSub>>, <<NameSub, NameTxt, NameB, NameA>> }

\* the records given to save
SaveMemories ==
    { Memory(IdA, TitleShop, BodyHi, <<TagWork, TagPersonal>>, T0, T0),
      Memory(IdA, TitleTodo, <<>>, <<>>, T0, T1),
      Memory(IdB, TitleTodo, TagWork, <<TagHome>>, T0, T0),
      Memory(IdB, TitleTodo, BodyHi, <<TagWorkshop>>, T1, T1) }

\* the arguments given to search and to search_by_tag
QueryShopping == <<"s", "h", "o", "p", "p", "i", "n", "g">>
QueryWORK     == <<"W", "O", "R", "K">>
ArgWork       == <<"W", "o", "r", "k">>
Queries == { QueryShopping, QueryWORK, <<>> }
TagArgs == { ArgWork, TagWork, <<>> }

\* texts written from outside the store
RECURSIVE JoinLines(_)
JoinLines(ls) ==
    IF Len(ls) = 0 THEN <<>>
    ELSE IF Len(ls) = 1 THEN ls[1]
    ELSE ls[1] \o <<NL>> \o JoinLines(Tail(ls))

RawFile(lines, body) == HeaderOpen \o JoinLines(lines) \o HeaderClose \o body

Garbage == <<"b", "a", "d">>
LegacyTime == <<"2023-01-01", " ", "10:00:00", " ", "+0000">>

\* a header as another program writes it: the id, title and tags it means, and the
\* texts of its two timestamps
Header(id, title, tags, created, updated) ==
    [id |-> id, title |-> title, tags |-> tags, created |-> created, updated |-> updated]

HeaderLines(h) ==
    <<KeyId \o h.id, KeyTitle \o h.title, KeyTags \o join(h.tags) \o <<"]">>,
      KeyCreated \o h.created, KeyUpdated \o h.updated>>

HeaderBadCreated       == Header(IdA, TitleShop, <<TagWork>>, Garbage, to_rfc3339(T0))
HeaderBadCreatedNoTags == Header(IdA, TitleTodo, <<>>, Garbage, to_rfc3339(T0))
HeaderLegacy           == Header(IdA, TitleShop, <<TagHome>>, LegacyTime, LegacyTime)

TextBadCreated       == RawFile(HeaderLines(HeaderBadCreated), BodyHi)
TextBadCreatedNoTags == RawFile(HeaderLines(HeaderBadCreatedNoTags), BodyHi)
TextLegacy           == RawFile(HeaderLines(HeaderLegacy), BodyHi)
TextNoHeader         == BodyHi
TextNoTagsLine ==
    RawFile(<<KeyId \o IdA, KeyTitle \o TitleShop,
              KeyCreated \o to_rfc3339(T0), KeyUpdated \o to_rfc3339(T0)>>, BodyHi)

\* what other programs put into the directory, one write at a time
EnvEntries ==
    { (NameA :> File(TextBadCreated, TRUE)),
      (NameA :> File(TextBadCreatedNoTags, TRUE)),
      (NameA :> File(TextNoHeader, TRUE)),
      (NameA :> File(TextNoTagsLine, TRUE)),
      (NameA :> File(TextLegacy, TRUE)),
      (NameB :> File(TextLegacy, FALSE)),
      (NameTxt :> File(TextLegacy, TRUE)) @@ (NameSub :> Subdir) }

(***************************************************************************)
(* The store                                                               *)
(***************************************************************************)
\* what the history knows of an id
Never == [state |-> "never"]
Deleted == [state |-> "deleted"]
Live(m) == [state |-> "live", val |-> m]
NoShadow == [id \in Ids |-> Never]
EmptyDir == [n \in Names |-> NoEntry]

\* no concurrent caller at work
Procs == { "p1", "p2" }
IdleProc == [call |-> [name |-> "none"], pc |-> "idle", fd |-> 0, res |-> NoResult]

ConcIdle ==
    /\ link = 0
    /\ inodes = <<>>
    /\ procs = [p \in Procs |-> IdleProc]

Init ==
    /\ dir = "ok"
    /\ entries = EmptyDir
    /\ now = 0
    /\ op = [name |-> "new"]
    /\ res = Ok(<<>>)
    /\ shadow = NoShadow
    /\ tampered = FALSE
    /\ cpc = "idle"
    /\ cm = NoMemory
    /\ ctext = <<>>
    /\ cres = NoResult
    /\ ConcIdle

\* a call returns out: the returned value, the directory and the clock after it
Returns(call, out) ==
    /\ op' = call
    /\ res' = out.res
    /\ dir' = out.dir
    /\ entries' = out.entries
    /\ now' = out.now
    /\ UNCHANGED codecVars
    /\ UNCHANGED concVars

New ==
    \E order \in DirOrders :
        \E out \in {new(dir, entries, now, order)} :
            /\ Returns([name |-> "new"], out)
            /\ UNCHANGED <<shadow, tampered>>

Save ==
    \E m \in SaveMemories :
        \E out \in {save(dir, entries, now, m)} :
            /\ Returns([name |-> "save", arg |-> m], out)
            /\ shadow' = IF out.res.tag = "Ok" /\ ~tampered
                         THEN [shadow EXCEPT ![m.id] = Live(m)]
                         ELSE shadow
            /\ UNCHANGED tampered

Get ==
    \E id \in Ids :
        \E out \in {get(dir, entries, now, id)} :
            /\ Returns([name |-> "get", arg |-> id], out)
            /\ UNCHANGED <<shadow, tampered>>

Delete ==
    \E id \in Ids :
        \E out \in {delete(dir, entries, now, id)} :
            /\ Returns([name |-> "delete", arg |-> id], out)
            /\ shadow' = IF out.res.tag = "Ok" /\ ~tampered
                         THEN [shadow EXCEPT ![id] = Deleted]
                         ELSE shadow
            /\ UNCHANGED tampered

List ==
    \E order \in DirOrders :
        \E out \in {list(dir, entries, now, order)} :
            /\ Returns([name |-> "list"], out)
            /\ UNCHANGED <<shadow, tampered>>

Search ==
    \E order \in DirOrders, query \in Queries :
        \E out \in {search(dir, entries, now, order, query)} :
            /\ Returns([name |-> "search", arg |-> query], out)
            /\ UNCHANGED <<shadow, tampered>>

SearchByTag ==
    \E order \in DirOrders, tag \in TagArgs :
        \E out \in {search_by_tag(dir, entries, now, order, tag)} :
            /\ Returns([name |-> "search_by_tag", arg |-> tag], out)
            /\ UNCHANGED <<shadow, tampered>>

\* a step that is no call of the store: op and res describe the last step only
Quiet ==
    /\ op' = [name |-> "none"]
    /\ res' = NoResult

\* time passes
Tick ==
    /\ now < MaxNow
    /\ now' = now + 1
    /\ Quiet
    /\ UNCHANGED <<dir, entries, shadow, tampered>>
    /\ UNCHANGED codecVars
    /\ UNCHANGED concVars

\* the environment: another program writes an entry into the directory
EnvPut ==
    \E e \in EnvEntries :
        /\ ~Absent(dir)
        /\ entries' = [n \in Names |-> IF n \in DOMAIN e THEN e[n] ELSE entries[n]]
        /\ tampered' = TRUE
        /\ shadow' = NoShadow
        /\ Quiet
        /\ UNCHANGED <<dir, now>>
        /\ UNCHANGED codecVars
        /\ UNCHANGED concVars

\* the environment: the base directory is removed with all it holds
EnvRemoveDir ==
    /\ ~Absent(dir)
    /\ dir' = "absent"
    /\ entries' = EmptyDir
    /\ tampered' = TRUE
    /\ shadow' = NoShadow
    /\ Quiet
    /\ UNCHANGED now
    /\ UNCHANGED codecVars
    /\ UNCHANGED concVars

\* the environment: the read permission of the base directory is taken or given back
EnvChmodDir ==
    /\ ~Absent(dir)
    /\ dir' = IF dir = "ok" THEN "noread" ELSE "ok"
    /\ tampered' = TRUE
    /\ shadow' = NoShadow
    /\ Quiet
    /\ UNCHANGED <<entries, now>>
    /\ UNCHANGED codecVars
    /\ UNCHANGED concVars

\* the environment: the place of the removed base directory is made such that the
\* directory cannot be created (its parent is read-only), or usable again
EnvBlockDir ==
    /\ Absent(dir)
    /\ dir' = IF dir = "absent" THEN "blocked" ELSE "absent"
    /\ tampered' = TRUE
    /\ shadow' = NoShadow
    /\ Quiet
    /\ UNCHANGED <<entries, now>>
    /\ UNCHANGED codecVars
    /\ UNCHANGED concVars

StoreNext == New \/ Save \/ Get \/ Delete \/ List \/ Search \/ SearchByTag \/ Tick

Next == StoreNext \/ EnvPut \/ EnvRemoveDir \/ EnvChmodDir

\* the store with no other program touching its directory
SpecStore == Init /\ [][StoreNext]_vars

\* the store in a directory other programs write to
Spec == Init /\ [][Next]_vars

\* the store while its base directory is removed, kept from being created, allowed back
DirNext ==
    \/ New \/ Save \/ Get \/ Delete \/ List \/ Search \/ SearchByTag
    \/ EnvRemoveDir \/ EnvBlockDir

SpecDirs == Init /\ [][DirNext]_vars

(***************************************************************************)
(* The encoding on its own: a record is encoded, the text is decoded       *)
(***************************************************************************)
StoreIdle ==
    /\ dir = "ok"
    /\ entries = EmptyDir
    /\ now = 0
    /\ op = [name |-> "none"]
    /\ res = NoResult
    /\ shadow = NoShadow
    /\ tampered = FALSE

CodecInit ==
    /\ StoreIdle
    /\ ConcIdle
    /\ cpc = "start"
    /\ cm \in CodecMemories
    /\ ctext = <<>>
    /\ cres = NoResult

CodecEncode ==
    /\ cpc = "start"
    /\ ctext' = to_markdown(cm)
    /\ cpc' = "encoded"
    /\ UNCHANGED <<cm, cres>>
    /\ UNCHANGED storeVars
    /\ UNCHANGED concVars

CodecDecode ==
    /\ cpc = "encoded"
    /\ cres' = from_markdown(ctext)
    /\ cpc' = "decoded"
    /\ UNCHANGED <<cm, ctext>>
    /\ UNCHANGED storeVars
    /\ UNCHANGED concVars

CodecNext == CodecEncode \/ CodecDecode

SpecCodec == CodecInit /\ [][CodecNext]_vars

(***************************************************************************)
(* Properties                                                              *)
(***************************************************************************)
MemA1 == Memory(IdA, TitleShop, BodyHi, <<TagWork, TagPersonal>>, T0, T0)
HasFile(id) == ~Absent(dir) /\ entries[get_memory_path(id)].kind = "file"
NoFileFor(id) == Absent(dir) \/ entries[get_memory_path(id)].kind = "none"
Positions(records) == 1..Len(records)

\* p is a substring of t
IsSubstring(p, t) == \E i \in 0..(Len(t) - Len(p)) : SubSeq(t, i + 1, i + Len(p)) = p

\* each tag trimmed
Trimmed(tags) == [k \in 1..Len(tags) |-> trim(tags[k])]

(* C1: with no change from outside, the store is a map keyed by id.  get(id)      *)
(* returns the record of the last successful save(id) not followed by a          *)
(* successful delete(id), timestamps included, and NotFound(id) otherwise; list() *)
(* returns exactly one record for every such id and none for any other id.        *)
C1_StoreIsMapKeyedById ==
    /\ op.name = "get" =>
          IF shadow[op.arg].state = "live"
          THEN res.tag = "Ok" /\ res.val = shadow[op.arg].val
          ELSE res.tag = "NotFound" /\ res.id = op.arg
    /\ op.name = "list" =>
          /\ res.tag = "Ok"
          /\ \A k \in Positions(res.val) : res.val[k].id \in Ids
          /\ \A id \in Ids :
                Cardinality({k \in Positions(res.val) : res.val[k].id = id})
                    = IF shadow[id].state = "live" THEN 1 ELSE 0

(* C2: for a record with non-empty id and title, decoding its encoding succeeds  *)
(* and gives back the id, the title, the content, the tags each trimmed, and     *)
(* both timestamps.                                                               *)
C2_DecodeOfEncodeIsTheRecord ==
    (cpc = "decoded" /\ cm.id # <<>> /\ cm.title # <<>>) =>
        /\ cres.tag = "Ok"
        /\ cres.val.id = cm.id
        /\ cres.val.title = cm.title
        /\ cres.val.content = cm.content
        /\ cres.val.tags = Trimmed(cm.tags)
        /\ cres.val.created_at = cm.created_at
        /\ cres.val.updated_at = cm.updated_at

(* C3: a record with no tags is encoded with the header line "tags: []", and     *)
(* decoding that header gives a tag sequence of length 0.                        *)
EmptyTagsLine == <<NL>> \o KeyTags \o <<"]", NL>>

C3_EmptyTagsDecodeToNoTags ==
    (cpc = "decoded" /\ cm.tags = <<>>) =>
        /\ Contains(ctext, EmptyTagsLine)
        /\ cres.tag = "Ok"
        /\ Len(cres.val.tags) = 0

(* C4: save called while the base directory is absent creates the directory,     *)
(* writes the record's file and returns success.                                 *)
C4_SaveCreatesTheDirectory ==
    [][(dir = "absent" /\ op'.name = "save") =>
          /\ res'.tag = "Ok"
          /\ dir' = "ok"
          /\ entries'[get_memory_path(op'.arg.id)] = File(to_markdown(op'.arg), TRUE)]_vars

(* C5: for a stored file <id>.md whose created_at is unparseable and whose id,   *)
(* title and tags lines are well-formed, list() includes a record with the       *)
(* header's id, title and tags and the current time for both timestamps, and     *)
(* get(id) fails with InvalidFormat.                                             *)
BadCreatedHeaders == { HeaderBadCreated, HeaderBadCreatedNoTags }

C5_ListRecoversWhatGetRejects ==
    \A h \in BadCreatedHeaders :
        (dir = "ok" /\ entries[get_memory_path(h.id)] = File(RawFile(HeaderLines(h), BodyHi), TRUE)) =>
            /\ op.name = "list" =>
                  /\ res.tag = "Ok"
                  /\ \E k \in Positions(res.val) :
                        /\ res.val[k].id = h.id
                        /\ res.val[k].title = h.title
                        /\ res.val[k].tags = h.tags
                        /\ res.val[k].created_at = ClockInstant(now)
                        /\ res.val[k].updated_at = ClockInstant(now)
            /\ (op.name = "get" /\ op.arg = h.id) => res.tag = "InvalidFormat"

(* C6: get(id) and delete(id) on an id that has no file fail with NotFound(id)   *)
(* and leave the directory as it was: no entry is created, removed or changed    *)
(* (so every other id's file, and with it what get returns for it, is the same). *)
C6_NotFoundLeavesDirectory ==
    [][\A id \in Ids :
          (NoFileFor(id) /\ op'.name \in {"get", "delete"} /\ op'.arg = id) =>
              /\ res'.tag = "NotFound"
              /\ res'.id = id
              /\ dir' = dir
              /\ entries' = entries]_vars

C6_Witness ==
    /\ op.name = "delete"
    /\ op.arg = IdA
    /\ res.tag = "NotFound"
    /\ entries[NameB].kind = "file"

(* C7: with no change from outside, delete(id) of an id that has a file succeeds *)
(* and removes that file and no other; from then on and until a save(id), a      *)
(* further delete(id) and get(id) fail with NotFound(id) and list() has no       *)
(* record with that id; the other ids' records are returned as before.           *)
C7_DeleteThenNotFound ==
    [][\A id \in Ids :
          /\ (HasFile(id) /\ op'.name = "delete" /\ op'.arg = id) =>
                /\ res'.tag = "Ok"
                /\ entries'[get_memory_path(id)] = NoEntry
                /\ \A n \in Names \ {get_memory_path(id)} : entries'[n] = entries[n]
                /\ \A other \in Ids \ {id} :
                      get(dir', entries', now', other).res = get(dir, entries, now, other).res
                /\ \A order \in DirOrders :
                      list(dir', entries', now', order).res.val
                          = SelectSeq(list(dir, entries, now, order).res.val,
                                      LAMBDA m : m.id # id)
          /\ (shadow[id].state = "deleted" /\ op'.name \in {"get", "delete"} /\ op'.arg = id) =>
                /\ res'.tag = "NotFound"
                /\ res'.id = id
          /\ (shadow[id].state = "deleted" /\ op'.name = "list") =>
                /\ res'.tag = "Ok"
                /\ \A k \in Positions(res'.val) : res'.val[k].id # id]_vars

C7_Witness ==
    /\ op.name = "delete"
    /\ op.arg = IdA
    /\ shadow[IdA].state = "deleted"
    /\ res.tag = "NotFound"
    /\ shadow[IdB].state = "live"

(* C8: when the directory can be read, list() succeeds whatever the files hold:  *)
(* it returns one record for every .md file that can be read and decodes or is   *)
(* recoverable, and nothing for any other .md file, for a file without the .md   *)
(* extension, or for a sub-directory.                                            *)
EndsWithMd(n) == Len(n) > 3 /\ SubSeq(n, Len(n) - 2, Len(n)) = DotMd

Decodes(n) == from_markdown(entries[n].text).tag = "Ok"
Recoverable(n) == ~Decodes(n) /\ try_fix_memory_file(entries[n].text, ClockInstant(now)).some

ListedNames ==
    {n \in Names : /\ entries[n].kind = "file"
                   /\ EndsWithMd(n)
                   /\ entries[n].readable
                   /\ (Decodes(n) \/ Recoverable(n))}

IsRecordOf(n, memory) ==
    IF Decodes(n) THEN memory = from_markdown(entries[n].text).val
    ELSE memory = try_fix_memory_file(entries[n].text, ClockInstant(now)).val

QueryHits(memory, query) ==
    \/ IsSubstring(to_lowercase(query), to_lowercase(memory.title))
    \/ IsSubstring(to_lowercase(query), to_lowercase(memory.content))
    \/ \E k \in 1..Len(memory.tags) :
          IsSubstring(to_lowercase(query), to_lowercase(memory.tags[k]))

C9_SearchFiltersList ==
    op.name = "search" =>
        /\ \E order \in DirOrders :
              LET l == list(dir, entries, now, order).res
              IN  IF l.tag = "Ok"
                  THEN /\ res.tag = "Ok"
                       /\ res.val = SelectSeq(l.val, LAMBDA m : QueryHits(m, op.arg))
                  ELSE res.tag = l.tag
        /\ (op.arg = QueryShopping /\ dir = "ok" /\ entries[NameA] = File(to_markdown(MemA1), TRUE)) =>
              \E k \in Positions(res.val) : res.val[k].title = TitleShop

C9_Witness ==
    /\ op.name = "search"
    /\ op.arg = QueryShopping
    /\ res.tag = "Ok"
    /\ Len(res.val) = 1
    /\ res.val[1].title = TitleShop
    /\ entries[NameB].kind = "file"
    /\ entries[NameB].readable

(* C10: search_by_tag(tag) returns exactly the records of list() one of whose    *)
(* tags equals the argument when both are lower-cased: a record tagged           *)
(* ["work", "personal"] is returned for "Work", a record tagged ["home"] is not, *)
(* and a record tagged ["workshop"] is not returned for "work".                  *)
TagHits(memory, tag) ==
    \E k \in 1..Len(memory.tags) : to_lowercase(memory.tags[k]) = to_lowercase(tag)

C10_SearchByTagIsWholeTag ==
    op.name = "search_by_tag" =>
        /\ \E order \in DirOrders :
              LET l == list(dir, entries, now, order).res
              IN  IF l.tag = "Ok"
                  THEN /\ res.tag = "Ok"
                       /\ res.val = SelectSeq(l.val, LAMBDA m : TagHits(m, op.arg))
                  ELSE res.tag = l.tag
        /\ (op.arg = ArgWork /\ dir = "ok" /\ entries[NameA] = File(to_markdown(MemA1), TRUE)) =>
              \E k \in Positions(res.val) : res.val[k].tags = <<TagWork, TagPersonal>>
        /\ (op.arg \in {ArgWork, TagWork} /\ res.tag = "Ok") =>
              \A k \in Positions(res.val) : res.val[k].tags \notin {<<TagHome>>, <<TagWorkshop>>}

C10_Witness ==
    /\ op.name = "search_by_tag"
    /\ op.arg = ArgWork
    /\ res.tag = "Ok"
    /\ Len(res.val) = 1
    /\ res.val[1].tags = <<TagWork, TagPersonal>>
    /\ entries[NameB].kind = "file"
    /\ entries[NameB].readable
    /\ from_markdown(entries[NameB].text).tag = "Ok"

(* C11: after MemoryStore::new returns with the directory readable, every .md    *)
(* file that was recoverable (strict decode failed only on an unparseable        *)
(* created_at, with id, title and tags lines well-formed) decodes strictly, with *)
(* the header's id, title and tags, whatever else the directory holds.           *)
C11_OpenRewritesEveryRecoverableFile ==
    [][\A h \in BadCreatedHeaders :
          (/\ op'.name = "new"
           /\ dir = "ok"
           /\ entries[get_memory_path(h.id)] = File(RawFile(HeaderLines(h), BodyHi), TRUE)) =>
              \E r \in {from_markdown(entries'[get_memory_path(h.id)].text)} :
                  /\ r.tag = "Ok"
                  /\ r.val.id = h.id
                  /\ r.val.title = h.title
                  /\ r.val.tags = h.tags]_vars

(***************************************************************************)
(* Concurrent callers of save, get, delete and list on one id.  The path   *)
(* <id>.md is a link to an inode, and an open descriptor names the inode:  *)
(* a caller goes on reading or writing it whatever the path names by then. *)
(* Each caller makes one call, one system call per step.                   *)
(***************************************************************************)
\* the record stored before the callers start, and the records they save
MemA0 == Memory(IdA, TitleTodo, BodyHi, <<TagHome>>, T0, T0)
MemA2 == Memory(IdA, TitleTodo, <<>>, <<TagHome>>, T0, T1)
ConcMemories == { MemA1, MemA2 }

\* write_all on a descriptor opened by File::create: the bytes go to offset 0,
\* what the inode holds beyond them stays
WriteAt0(old, data) == data \o SubSeq(old, Len(data) + 1, Len(old))

\* caller p moves on
Goes(p, call, pc, fd, r) ==
    procs' = [procs EXCEPT ![p] = [call |-> call, pc |-> pc, fd |-> fd, res |-> r]]

Done(p, r) == Goes(p, procs[p].call, "done", procs[p].fd, r)

At(p, name, pc) == procs[p].pc = pc /\ procs[p].call.name = name

Idle ==
    /\ UNCHANGED storeVars
    /\ UNCHANGED codecVars

\* save: File::create(path) makes the file or empties it
SaveCreate(p) ==
    /\ procs[p].pc = "idle"
    /\ \E m \in ConcMemories :
          IF link = 0
          THEN /\ inodes' = Append(inodes, <<>>)
               /\ link' = Len(inodes) + 1
               /\ Goes(p, [name |-> "save", arg |-> m], "created", Len(inodes) + 1, NoResult)
          ELSE /\ inodes' = [inodes EXCEPT ![link] = <<>>]
               /\ link' = link
               /\ Goes(p, [name |-> "save", arg |-> m], "created", link, NoResult)
    /\ Idle

\* save: file.write_all(markdown.as_bytes()), then Ok(())
SaveWrite(p) ==
    /\ At(p, "save", "created")
    /\ \E data \in {to_markdown(procs[p].call.arg)} :
          inodes' = [inodes EXCEPT ![procs[p].fd] = WriteAt0(@, data)]
    /\ Done(p, Ok(<<>>))
    /\ UNCHANGED link
    /\ Idle

\* save: file.write_all(markdown.as_bytes()) fails (the device has no room, or an
\* input/output error): nothing is written to the file File::create has emptied,
\* and the ? returns the error
SaveWriteFails(p) ==
    /\ At(p, "save", "created")
    /\ Done(p, Io("write_all"))
    /\ UNCHANGED <<link, inodes>>
    /\ Idle

\* get: path.exists()
GetExists(p) ==
    /\ procs[p].pc = "idle"
    /\ IF link = 0
       THEN Goes(p, [name |-> "get", arg |-> IdA], "done", 0, NotFound(IdA))
       ELSE Goes(p, [name |-> "get", arg |-> IdA], "checked", 0, NoResult)
    /\ UNCHANGED <<link, inodes>>
    /\ Idle

\* get: File::open(path)
GetOpen(p) ==
    /\ At(p, "get", "checked")
    /\ IF link = 0
       THEN Done(p, Io("open"))
       ELSE Goes(p, procs[p].call, "opened", link, NoResult)
    /\ UNCHANGED <<link, inodes>>
    /\ Idle

\* get: read_to_string, then Memory::from_markdown
GetRead(p) ==
    /\ At(p, "get", "opened")
    /\ \E content \in {inodes[procs[p].fd]} : Done(p, from_markdown(content))
    /\ UNCHANGED <<link, inodes>>
    /\ Idle

\* delete: path.exists()
DeleteExists(p) ==
    /\ procs[p].pc = "idle"
    /\ IF link = 0
       THEN Goes(p, [name |-> "delete", arg |-> IdA], "done", 0, NotFound(IdA))
       ELSE Goes(p, [name |-> "delete", arg |-> IdA], "checked", 0, NoResult)
    /\ UNCHANGED <<link, inodes>>
    /\ Idle

\* delete: fs::remove_file(path)
DeleteRemove(p) ==
    /\ At(p, "delete", "checked")
    /\ IF link = 0
       THEN Done(p, Io("remove")) /\ UNCHANGED link
       ELSE Done(p, Ok(<<>>)) /\ link' = 0
    /\ UNCHANGED inodes
    /\ Idle

\* list: fs::read_dir yields the entry, or nothing
ListReadDir(p) ==
    /\ procs[p].pc = "idle"
    /\ IF link = 0
       THEN Goes(p, [name |-> "list"], "done", 0, Ok(<<>>))
       ELSE Goes(p, [name |-> "list"], "listed", 0, NoResult)
    /\ UNCHANGED <<link, inodes>>
    /\ Idle

\* list: path.is_file() and File::open(&path); a file gone by now is passed over
ListOpen(p) ==
    /\ At(p, "list", "listed")
    /\ IF link = 0
       THEN Done(p, Ok(<<>>))
       ELSE Goes(p, procs[p].call, "opened", link, NoResult)
    /\ UNCHANGED <<link, inodes>>
    /\ Idle

\* list: read_to_string, Memory::from_markdown, try_fix_memory_file
ListRead(p) ==
    /\ At(p, "list", "opened")
    /\ \E content \in {inodes[procs[p].fd]} :
          \E found \in {ListEntry(NameA :> File(content, TRUE), NameA, now)} :
              Done(p, Ok(found))
    /\ UNCHANGED <<link, inodes>>
    /\ Idle

ConcInit ==
    /\ StoreIdle
    /\ cpc = "idle"
    /\ cm = NoMemory
    /\ ctext = <<>>
    /\ cres = NoResult
    /\ link \in {0, 1}
    /\ inodes = IF link = 0 THEN <<>> ELSE <<to_markdown(MemA0)>>
    /\ procs = [p \in Procs |-> IdleProc]

ConcNext ==
    \E p \in Procs :
        \/ SaveCreate(p)
        \/ SaveWrite(p)
        \/ SaveWriteFails(p)
        \/ GetExists(p)
        \/ GetOpen(p)
        \/ GetRead(p)
        \/ DeleteExists(p)
        \/ DeleteRemove(p)
        \/ ListReadDir(p)
        \/ ListOpen(p)
        \/ ListRead(p)

\* two callers, their system calls interleaved in every order
SpecConc == ConcInit /\ [][ConcNext]_vars

\* the records a reader may see whole
ConcRecords == { MemA0, MemA1, MemA2 }
NoDeleteCaller == \A q \in Procs : procs[q].call.name # "delete"
NoFailedWrite == \A q \in Procs : procs[q].res # Io("write_all")

(* C12: a get(id) or list() running along with saves of the same id sees the     *)
(* whole previous record, the whole new record or, when there was none, no       *)
(* record: get never fails to decode, and list never passes over the file it     *)
(* opened.                                                                        *)
C12_ReadersSeeWholeRecords ==
    \A p \in Procs :
        (procs[p].pc = "done" /\ NoDeleteCaller /\ NoFailedWrite) =>
            /\ procs[p].call.name = "get" =>
                  \/ procs[p].res = NotFound(IdA)
                  \/ procs[p].res.tag = "Ok" /\ procs[p].res.val \in ConcRecords
            /\ procs[p].call.name = "list" =>
                  /\ \A k \in Positions(procs[p].res.val) : procs[p].res.val[k] \in ConcRecords
                  /\ procs[p].fd # 0 => Len(procs[p].res.val) = 1

(* C13: when two saves of the same id with different records have both returned  *)
(* success, the file holds the whole encoding of one of the two records.         *)
C13_LastWriterWins ==
    (/\ \A p \in Procs : procs[p].pc = "done" /\ procs[p].call.name = "save"
     /\ \A p \in Procs : procs[p].res.tag = "Ok"
     /\ procs["p1"].call.arg # procs["p2"].call.arg) =>
        /\ link # 0
        /\ inodes[link] \in { to_markdown(procs[p].call.arg) : p \in Procs }

(***************************************************************************)
(* The decoder on its own: a text is given to from_markdown                *)
(***************************************************************************)
\* a title in which the pattern "id: " occurs
TitleValid == <<"v", "a", "l", "i", "d", ":", " ", "x">>

RfcTime   == <<"2023-01-01", "T", "10:00:00", "+00:00">>
FracTime  == <<"2023-01-01", " ", "10:00:00", ".5", " ", "+0100">>
NaiveTime == <<"2023-01-01", " ", "10:00:00">>

\* the lines a header may have for each field: none, or one of these
NoLine == <<>>
IdLines      == { NoLine, <<KeyId \o IdA>> }
TitleLines   == { NoLine, <<KeyTitle \o TitleShop>>, <<KeyTitle \o TitleValid>> }
TagsLines    == { NoLine, <<KeyTags \o TagWork \o <<"]">>>> }
CreatedTexts == { RfcTime, FracTime, LegacyTime, NaiveTime, Garbage }
UpdatedTexts == CreatedTexts
CreatedLines == { NoLine } \cup { <<KeyCreated \o v>> : v \in CreatedTexts }
UpdatedLines == { NoLine } \cup { <<KeyUpdated \o v>> : v \in UpdatedTexts }

HeaderText(i, ti, tg, c, u) == RawFile(i \o ti \o tg \o c \o u, BodyHi)

\* a header that is not followed by a blank line
TextNoBlankLine ==
    HeaderOpen \o KeyId \o IdA \o <<NL, "-", "-", "-", NL>> \o BodyHi

DecodeTexts ==
    { HeaderText(i, ti, tg, c, u) :
        i \in IdLines, ti \in TitleLines, tg \in TagsLines,
        c \in CreatedLines, u \in UpdatedLines }
    \cup { TextNoHeader, TextNoBlankLine }

DecodeInit ==
    /\ StoreIdle
    /\ ConcIdle
    /\ cpc = "given"
    /\ cm = NoMemory
    /\ ctext \in DecodeTexts
    /\ cres = NoResult

DecodeText ==
    /\ cpc = "given"
    /\ cres' = from_markdown(ctext)
    /\ cpc' = "parsed"
    /\ UNCHANGED <<cm, ctext>>
    /\ UNCHANGED storeVars
    /\ UNCHANGED concVars

SpecDecode == DecodeInit /\ [][DecodeText]_vars

\* the instant each timestamp text stands for, and the texts that stand for none
InstantOf(v) ==
    CASE v = RfcTime    -> Instant(36000, 0)
      [] v = FracTime   -> Instant(32400, 500000000)
      [] v = LegacyTime -> Instant(36000, 0)
      [] v = NaiveTime  -> Instant(36000, 0)
      [] OTHER          -> NoInstant

\* the failure the decoder is to report for a header with these lines: the first
\* bad field in the order id, title, tags, created_at, updated_at
FirstBadField(i, ti, tg, c, u) ==
    IF i = NoLine THEN "Missing id"
    ELSE IF ti = NoLine THEN "Missing title"
    ELSE IF tg = NoLine THEN "Missing tags"
    ELSE IF c = NoLine THEN "Missing created_at"
    ELSE IF c = <<KeyCreated \o Garbage>> THEN "Invalid created_at format"
    ELSE IF u = NoLine THEN "Missing updated_at"
    ELSE IF u = <<KeyUpdated \o Garbage>> THEN "Invalid updated_at format"
    ELSE "none"

(* C14: decoding reports each failure as InvalidFormat naming the violated rule:  *)
(* "Invalid markdown format" for a text without the header delimiters or the     *)
(* blank line before the body, and for a header the first bad field in the order *)
(* id, title, tags, created_at, updated_at; it succeeds when no field is bad.    *)
C14_DecodeNamesTheFirstBadField ==
    cpc = "parsed" =>
        /\ ctext \in {TextNoHeader, TextNoBlankLine} =>
              cres = InvalidFormat("Invalid markdown format", <<>>)
        /\ \A i \in IdLines, ti \in TitleLines, tg \in TagsLines,
              c \in CreatedLines, u \in UpdatedLines :
              ctext = HeaderText(i, ti, tg, c, u) =>
                  \E bad \in {FirstBadField(i, ti, tg, c, u)} :
                      IF bad = "none" THEN cres.tag = "Ok"
                      ELSE cres.tag = "InvalidFormat" /\ cres.msg = bad

\* the value of the first of the four formats that parses v, NoInstant when none does
FirstFormat(v) ==
    IF parse_from_rfc3339(v) # NoInstant THEN parse_from_rfc3339(v)
    ELSE IF parse_with_offset(v, TRUE) # NoInstant THEN parse_with_offset(v, TRUE)
    ELSE IF parse_with_offset(v, FALSE) # NoInstant THEN parse_with_offset(v, FALSE)
    ELSE parse_naive(v)

WithTimes(c, u) ==
    HeaderText(<<KeyId \o IdA>>, <<KeyTitle \o TitleShop>>, <<KeyTags \o TagWork \o <<"]">>>>,
               <<KeyCreated \o c>>, <<KeyUpdated \o u>>)

(* C19: a timestamp is decoded as the first of RFC 3339, date-time with fraction *)
(* and offset, date-time with offset, naive date-time taken as UTC that parses   *)
(* it; decoding fails with InvalidFormat naming the field exactly when none      *)
(* does, created_at before updated_at; both fields follow the same rule, and     *)
(* "2023-01-01 10:00:00 +0000" is the instant of "2023-01-01T10:00:00+00:00".    *)
C19_TimestampsInFourFormats ==
    cpc = "parsed" =>
        \A c \in CreatedTexts, u \in UpdatedTexts :
            ctext = WithTimes(c, u) =>
                IF InstantOf(c) = NoInstant
                THEN cres = InvalidFormat("Invalid created_at format", c)
                ELSE IF InstantOf(u) = NoInstant
                THEN cres = InvalidFormat("Invalid updated_at format", u)
                ELSE /\ cres.tag = "Ok"
                     /\ cres.val.created_at = InstantOf(c)
                     /\ cres.val.updated_at = InstantOf(u)
                     /\ cres.val.created_at = FirstFormat(c)
                     /\ cres.val.updated_at = FirstFormat(u)
                     /\ (c = LegacyTime /\ u = RfcTime) =>
                            cres.val.created_at = cres.val.updated_at

C19_Witness ==
    /\ cpc = "parsed"
    /\ ctext = WithTimes(LegacyTime, NaiveTime)
    /\ cres.tag = "Ok"
    /\ cres.val.created_at = T0
    /\ cres.val.updated_at = T0

EntryPoints == { "save", "get", "delete", "list", "search", "search_by_tag" }

(* C15: each of save, get, delete, list, search, search_by_tag called while the  *)
(* base directory is absent (and can be created) leaves it existing, and called  *)
(* while it exists leaves it existing and returns no Io error.                   *)
C15_EntryPointsCreateTheDirectory ==
    [][op'.name \in EntryPoints =>
          /\ dir = "absent" => dir' = "ok"
          /\ dir = "ok" => (dir' = "ok" /\ res'.tag # "Io")]_vars

(* C18: when the base directory is absent and cannot be created, MemoryStore::new *)
(* and list, search, search_by_tag return an Io error; none of them panics.       *)
C18_CreateFailureIsIo ==
    [][(dir = "blocked" /\ op'.name \in {"new", "list", "search", "search_by_tag"}) =>
          res'.tag = "Io"]_vars

ListingCalls == { "list", "search", "search_by_tag" }
UnreadableRecordFile == \E n \in Names : IsRecordFile(entries, n) /\ ~entries[n].readable

(* C16: a failed filesystem operation inside a store operation reaches the       *)
(* caller as an Io error: list, search and search_by_tag return Io when the      *)
(* directory cannot be read and when a record file cannot be opened or read, get *)
(* returns Io for a file that cannot be opened, save returns Io when the file    *)
(* cannot be created.                                                            *)
C16_IoReachesTheCaller ==
    /\ (op.name \in ListingCalls /\ dir = "noread") => res.tag = "Io"
    /\ (op.name \in ListingCalls /\ dir = "ok" /\ UnreadableRecordFile) => res.tag = "Io"
    /\ (op.name = "get" /\ HasFile(op.arg) /\ ~entries[get_memory_path(op.arg)].readable) =>
          res.tag = "Io"
    /\ (op.name = "save" /\ Absent(dir)) => res.tag = "Io"

(***************************************************************************)
(* The store opened on a directory of files it has not written             *)
(***************************************************************************)
\* a body with a line "---" followed by a blank line, and a line "id: z" before it
BodyWithRule == KeyId \o <<"z">> \o HeaderClose \o BodyHi

HeaderBadUpdated == Header(IdA, TitleShop, <<TagWork>>, to_rfc3339(T0), Garbage)
TextBadUpdated   == RawFile(HeaderLines(HeaderBadUpdated), BodyHi)
TextNoCreatedLine ==
    RawFile(<<KeyId \o IdA, KeyTitle \o TitleShop, KeyTags \o TagWork \o <<"]">>,
              KeyUpdated \o to_rfc3339(T0)>>, BodyHi)
TextNoIdLine ==
    RawFile(<<KeyTitle \o TitleShop, KeyTags \o TagWork \o <<"]">>,
              KeyCreated \o to_rfc3339(T0), KeyUpdated \o to_rfc3339(T0)>>, BodyHi)
TextNoIdLineRuleInBody ==
    RawFile(<<KeyTitle \o TitleShop, KeyTags \o TagWork \o <<"]">>,
              KeyCreated \o to_rfc3339(T0), KeyUpdated \o to_rfc3339(T0)>>, BodyWithRule)
TextRuleInBody == RawFile(HeaderLines(HeaderLegacy), BodyWithRule)
TextBadCreatedRuleInBody == RawFile(HeaderLines(HeaderBadCreated), BodyWithRule)

\* a header with valid timestamps whose title reads "created_at: bad"
HeaderTitleNamesCreated ==
    Header(IdA, KeyCreated \o Garbage, <<TagWork>>, to_rfc3339(T0), to_rfc3339(T0))
TextTitleNamesCreated == RawFile(HeaderLines(HeaderTitleNamesCreated), BodyHi)

FileTexts ==
    { TextBadCreated, TextBadCreatedNoTags, TextBadUpdated, TextLegacy, TextNoHeader,
      TextNoBlankLine, TextNoTagsLine, TextNoCreatedLine, TextNoIdLine,
      TextNoIdLineRuleInBody, TextRuleInBody, TextBadCreatedRuleInBody,
      TextTitleNamesCreated }

OtherFiles ==
    { NoEntry, File(TextLegacy, FALSE),
      File(to_markdown(Memory(IdB, TitleTodo, TagWork, <<TagHome>>, T0, T0)), TRUE) }

FilesInit ==
    /\ dir = "ok"
    /\ \E a \in FileTexts, b \in OtherFiles :
          entries = [n \in Names |-> IF n = NameA THEN File(a, TRUE)
                                     ELSE IF n = NameB THEN b ELSE NoEntry]
    /\ now = 0
    /\ op = [name |-> "none"]
    /\ res = NoResult
    /\ shadow = NoShadow
    /\ tampered = TRUE
    /\ cpc = "idle"
    /\ cm = NoMemory
    /\ ctext = <<>>
    /\ cres = NoResult
    /\ ConcIdle

FilesNext == New \/ Get \/ List \/ Search \/ SearchByTag \/ Tick

SpecFiles == FilesInit /\ [][FilesNext]_vars

\* the strict decoder's failures that are not about the value of a timestamp
StructuralMessages == { "Invalid markdown format", "Missing id", "Missing title", "Missing tags" }

StructurallyBad(e) ==
    /\ e.kind = "file"
    /\ e.readable
    /\ \E r \in {from_markdown(e.text)} : r.tag = "InvalidFormat" /\ r.msg \in StructuralMessages

(* C17: a file whose strict decode fails for a structural reason (no header      *)
(* delimiter or blank line, no id, title or tags line) is not returned by list() *)
(* as a recovered record and is not rewritten by the open-time pass.             *)
C17_NoRecoveryOfStructuralFailures ==
    [][StructurallyBad(entries[NameA]) =>
          /\ op'.name = "new" => entries'[NameA] = entries[NameA]
          /\ op'.name = "list" =>
                /\ res'.tag = "Ok"
                /\ Len(res'.val) = Cardinality(ListedNames \ {NameA})]_vars

IsRecord(m) == DOMAIN m = {"id", "title", "content", "tags", "created_at", "updated_at"}

(* C20: whatever text a record file holds, from_markdown gives a record or       *)
(* InvalidFormat, try_fix_memory_file gives a record or none, and get, list,     *)
(* search, search_by_tag and the open-time pass return a value: none panics.     *)
C20_NoPanicOnFileContent ==
    /\ res.tag \in {"None", "Ok", "NotFound", "InvalidFormat", "Io"}
    /\ \A n \in Names :
          (entries[n].kind = "file") =>
              /\ \E r \in {from_markdown(entries[n].text)} :
                    \/ r.tag = "Ok" /\ IsRecord(r.val)
                    \/ r.tag = "InvalidFormat"
              /\ \E f \in {try_fix_memory_file(entries[n].text, ClockInstant(now))} :
                    f.some => IsRecord(f.val)

C20_Witness ==
    /\ op.name = "get"
    /\ op.arg = IdA
    /\ entries[NameA] = File(TextNoHeader, TRUE)
    /\ res = InvalidFormat("Invalid markdown format", <<>>)

(***************************************************************************)
(* Failures and races of single calls                                      *)
(***************************************************************************)
\* caller p made the only call so far
OnlyCaller(p) == \A q \in Procs \ {p} : procs[q].pc = "idle"

(* C21: when a save(m) fails with an Io error while a record with the same id    *)
(* was stored, the stored record is intact afterwards: the file still decodes to *)
(* the old record, which is what get(m.id) returns.                               *)
C21_FailedSaveKeepsTheOldRecord ==
    \A p \in Procs :
        (/\ procs[p].pc = "done"
         /\ procs[p].call.name = "save"
         /\ procs[p].res.tag = "Io"
         /\ OnlyCaller(p)
         /\ Len(inodes) = 1) =>
            /\ link = 1
            /\ from_markdown(inodes[link]) = Ok(MemA0)

\* every caller so far runs get or delete
OnlyGetAndDelete == \A q \in Procs : procs[q].call.name \in {"none", "get", "delete"}

(* C22: with get(id) and delete(id) callers running together, a get returns the  *)
(* stored record or NotFound(id), a delete returns success or NotFound(id), and  *)
(* of two deletes of an existing id exactly one succeeds and the other returns   *)
(* NotFound(id): no interleaving makes a call return an Io error.                *)
C22_GetAndDeleteRaceWithoutIo ==
    OnlyGetAndDelete =>
        /\ \A p \in Procs :
              (procs[p].pc = "done" /\ procs[p].call.name = "get") =>
                  procs[p].res \in {Ok(MemA0), NotFound(IdA)}
        /\ \A p \in Procs :
              (procs[p].pc = "done" /\ procs[p].call.name = "delete") =>
                  procs[p].res \in {Ok(<<>>), NotFound(IdA)}
        /\ (/\ \A p \in Procs : procs[p].pc = "done" /\ procs[p].call.name = "delete"
            /\ Len(inodes) = 1) =>
               { procs[p].res : p \in Procs } = {Ok(<<>>), NotFound(IdA)}

(***************************************************************************)
(* The recovery parse against the strict decoder                           *)
(***************************************************************************)
\* what the strict decoder extracts from a text before it parses the timestamps:
\* the header up to the first terminator, the body after it, the three fields
StrictExtract(text) ==
    Let(HeaderCaptures(text, TRUE), LAMBDA c :
        Let(TagsCapture(c.frontmatter, FALSE), LAMBDA tagsStr :
            [id      |-> LineCapture(c.frontmatter, KeyId),
             title   |-> LineCapture(c.frontmatter, KeyTitle),
             tags    |-> IF tagsStr = NoCapture THEN NoCapture ELSE parse_tags(tagsStr),
             content |-> c.content]))

\* the same four fields of a record
FieldsOf(m) == [id |-> m.id, title |-> m.title, tags |-> m.tags, content |-> m.content]

\* a readable record file the strict decoder rejects and the recovery parse accepts
RecoveredAt(es, name, t) ==
    /\ IsRecordFile(es, name)
    /\ es[name].readable
    /\ from_markdown(es[name].text).tag # "Ok"
    /\ try_fix_memory_file(es[name].text, ClockInstant(t)).some

(* C23: the recovery parse loses only the timestamps.  The record list() returns *)
(* for a recovered file has the id, title, tags and body the strict decoder      *)
(* extracts from the file's text, and from a file the open-time pass has         *)
(* rewritten the strict decoder extracts the same four fields as before: the     *)
(* body is never shortened.                                                       *)
C23_RecoveryLosesOnlyTimestamps ==
    [][/\ (op'.name = "list" /\ res'.tag = "Ok" /\ RecoveredAt(entries, NameA, now)) =>
             \E fixed \in {try_fix_memory_file(entries[NameA].text, ClockInstant(now))} :
                 /\ \E k \in Positions(res'.val) : res'.val[k] = fixed.val
                 /\ FieldsOf(fixed.val) = StrictExtract(entries[NameA].text)
       /\ (op'.name = "new" /\ entries'[NameA] # entries[NameA]) =>
             StrictExtract(entries'[NameA].text) = StrictExtract(entries[NameA].text)]_vars

\* the file the open-time pass writes in place of a recovered one
Repaired(es, name, t) ==
    File(to_markdown(try_fix_memory_file(es[name].text, ClockInstant(t)).val), TRUE)

\* no record file of the directory fails to open
AllReadable(es) == \A n \in Names : IsRecordFile(es, n) => es[n].readable

(* C24: the two recovery passes agree on which files are recoverable.  When      *)
(* list() returns a recovered record for a file, the open-time pass's loop body  *)
(* writes the repaired file in its place, and otherwise it leaves the file as it *)
(* is; MemoryStore::new, with every file readable, repairs each file that list() *)
(* recovers, in particular a file that has no created_at line.                   *)
C24_RecoveryPassesAgree ==
    [][/\ (op'.name = "list" /\ res'.tag = "Ok") =>
             IF /\ RecoveredAt(entries, NameA, now)
                /\ \E fixed \in {try_fix_memory_file(entries[NameA].text, ClockInstant(now))} :
                      \E k \in Positions(res'.val) : res'.val[k] = fixed.val
             THEN FixEntry(entries, NameA, now).entries[NameA] = Repaired(entries, NameA, now)
             ELSE FixEntry(entries, NameA, now).entries[NameA] = entries[NameA]
       /\ (op'.name = "new" /\ AllReadable(entries) /\ RecoveredAt(entries, NameA, now)) =>
             entries'[NameA] = Repaired(entries, NameA, now)]_vars

(***************************************************************************)
(* Records without tags                                                    *)
(***************************************************************************)
\* the record last saved under the id was saved with an empty tag list
SavedWithoutTags(id) == shadow[id].state = "live" /\ shadow[id].val.tags = <<>>

(* C25: a record saved with an empty tag list is never returned by               *)
(* search_by_tag, whatever the argument (the empty string included), and is      *)
(* returned by search(query) only when the query occurs in its title or content. *)
C25_TaglessRecordsMatchNoTag ==
    /\ (op.name = "search_by_tag" /\ res.tag = "Ok") =>
          \A k \in Positions(res.val) : ~SavedWithoutTags(res.val[k].id)
    /\ (op.name = "search" /\ res.tag = "Ok") =>
          \A k \in Positions(res.val) :
              SavedWithoutTags(res.val[k].id) =>
                  \E q \in {to_lowercase(op.arg)} :
                      \/ ContainsLower(shadow[res.val[k].id].val.title, q)
                      \/ ContainsLower(shadow[res.val[k].id].val.content, q)

(***************************************************************************)
(* The reading operations on files the store has not written, in a         *)
(* directory that may be removed or made unreadable                        *)
(***************************************************************************)
ReadsNext == FilesNext \/ EnvRemoveDir \/ EnvChmodDir

SpecReads == FilesInit /\ [][ReadsNext]_vars

ReadingCalls == { "get", "list", "search", "search_by_tag" }

(* C26: get, list, search and search_by_tag leave every entry of the base        *)
(* directory as it was: no file's content changes, none is created or removed.   *)
(* The three listing calls may create the missing base directory and nothing     *)
(* else changes.  list() does not write a recovered record back: the file it     *)
(* recovered is still rejected by get right after.                                *)
C26_ReadsLeaveFilesAlone ==
    [][(op'.name \in ReadingCalls) =>
          /\ entries' = entries
          /\ \/ dir' = dir
             \/ dir = "absent" /\ dir' = "ok" /\ op'.name \in ListingCalls
          /\ (op'.name = "list" /\ res'.tag = "Ok" /\ RecoveredAt(entries, NameA, now)) =>
                get(dir', entries', now', IdA).res.tag = "InvalidFormat"]_vars

C26_Witness ==
    /\ op.name = "list"
    /\ res.tag = "Ok"
    /\ RecoveredAt(entries, NameA, now)
    /\ \E k \in Positions(res.val) :
          res.val[k] = try_fix_memory_file(entries[NameA].text, ClockInstant(now)).val
    /\ get(dir, entries, now, IdA).res.tag = "InvalidFormat"

(***************************************************************************)
(* Opening the store again                                                 *)
(***************************************************************************)
\* the clock values from t on
ClockFrom(t) == t..MaxNow

(* C27: the open-time pass leaves valid data alone and is idempotent.  A step of *)
(* MemoryStore::new changes no file that decodes strictly, creates no entry and  *)
(* removes none, and once it has returned, opening the store again (at that or   *)
(* any later time, the directory read in any order) changes no file.             *)
C27_OpenTimePassIsIdempotent ==
    [][(op'.name = "new") =>
          /\ \A n \in Names :
                (/\ IsRecordFile(entries, n)
                 /\ entries[n].readable
                 /\ from_markdown(entries[n].text).tag = "Ok") => entries'[n] = entries[n]
          /\ \A n \in Names : entries'[n].kind = entries[n].kind
          /\ \A order \in DirOrders, t \in ClockFrom(now') :
                new(dir', entries', t, order).entries = entries']_vars

(***************************************************************************)
(* search_by_tag, search and list on the same directory                    *)
(***************************************************************************)
\* the records of a returned sequence
RecordsOf(r) == { r.val[k] : k \in Positions(r.val) }

(* C28: on the directory a search_by_tag(t) has returned from, search(t) returns *)
(* every record it returned; on the directory a search(t) has returned from,     *)
(* list() returns every record it returned, and no other when t is empty; and a  *)
(* search or search_by_tag that failed leaves a directory on which list() fails. *)
C28_SearchByTagWithinSearchWithinList ==
    \A order \in DirOrders :
        /\ (op.name = "search_by_tag" /\ res.tag = "Ok") =>
              \E s \in {search(dir, entries, now, order, op.arg).res} :
                  s.tag = "Ok" /\ RecordsOf(res) \subseteq RecordsOf(s)
        /\ (op.name = "search" /\ res.tag = "Ok") =>
              \E l \in {list(dir, entries, now, order).res} :
                  /\ l.tag = "Ok"
                  /\ RecordsOf(res) \subseteq RecordsOf(l)
                  /\ op.arg = <<>> => RecordsOf(res) = RecordsOf(l)
        /\ (op.name \in {"search", "search_by_tag"} /\ res.tag # "Ok") =>
              list(dir, entries, now, order).res.tag # "Ok"

C28_Witness ==
    /\ op.name = "search_by_tag"
    /\ op.arg = ArgWork
    /\ res.tag = "Ok"
    /\ Len(res.val) = 1
    /\ res.val[1].id = IdA
    /\ Len(list(dir, entries, now, <<NameA, NameB, NameTxt, NameSub>>).res.val) = 2
    /\ Len(search(dir, entries, now, <<NameA, NameB, NameTxt, NameSub>>, QueryWORK).res.val) = 2

====
